---- MODULE Spec2Model ----
(***************************************************************************)
(* A model of zmq_requests: the two stub builders (make_request_decorator *)
(* and service_request), the envelope records of models.py and the        *)
(* Deserializers registry of deserialization.py.                          *)
(*                                                                         *)
(* Python values are tagged records (k is the Python type of the value). *)
(* A text is a sequence of one-character strings, so that the converters *)
(* int(), float() and orjson.loads() are computed from the characters.   *)
(***************************************************************************)
EXTENDS Integers, Sequences, FiniteSets, TLC

\* ---------------------------------------------------------------- bounds
\* Longest serviceOutput text the transport delivers.
MaxTextLen == 2
\* Most positional arguments a caller passes to a stub.
MaxArgs == 3
\* The threads that share one transport handle.
NumCallers == 3

\* ---------------------------------------------------------------- values
NoneV == [k |-> "NoneType"]
IntV(n) == [k |-> "int", n |-> n]
FloatV(n) == [k |-> "float", f |-> n]
StrV(t) == [k |-> "str", s |-> t]
ListV(items) == [k |-> "list", items |-> items]
DictV(items) == [k |-> "dict", pairs |-> items]
\* An instance of a client class: it has a socket attribute and json.dumps
\* cannot encode it.
Inst == [k |-> "object", cls |-> "Client"]
\* A raised exception.
Raise(exc, msg) == [k |-> "raise", exc |-> exc, msg |-> msg]
IsRaise(v) == v.k = "raise"

\* The characters texts are made of.
Chars == {"7", "-", "[", "]"}
RECURSIVE TextsUpTo(_)
TextsUpTo(n) ==
    IF n = 0 THEN {<<>>}
    ELSE LET shorter == TextsUpTo(n - 1)
         IN shorter \cup {Append(t, c) : t \in {u \in shorter : Len(u) = n - 1}, c \in Chars}
Texts == TextsUpTo(MaxTextLen)

\* ------------------------------------------------- built-in conversions
DigitChars == <<"0", "1", "2", "3", "4", "5", "6", "7", "8", "9">>
Digits == {DigitChars[i] : i \in 1..Len(DigitChars)}
DigitValue(c) == (CHOOSE i \in 1..Len(DigitChars) : DigitChars[i] = c) - 1
AllDigits(t) == Len(t) > 0 /\ \A i \in 1..Len(t) : t[i] \in Digits
RECURSIVE DecimalValue(_)
DecimalValue(t) ==
    IF Len(t) = 0 THEN 0
    ELSE 10 * DecimalValue(SubSeq(t, 1, Len(t) - 1)) + DigitValue(t[Len(t)])
\* A signed decimal literal: an optional "-" and at least one digit.
IsIntLiteral(t) ==
    \/ AllDigits(t)
    \/ Len(t) > 1 /\ t[1] = "-" /\ AllDigits(Tail(t))
IntLiteralValue(t) ==
    IF t[1] = "-" THEN 0 - DecimalValue(Tail(t)) ELSE DecimalValue(t)

\* int(val_str)
int(val) ==
    IF val.k = "str"
    THEN IF IsIntLiteral(val.s) THEN IntV(IntLiteralValue(val.s))
         ELSE Raise("ValueError", val)
    ELSE IF val.k \in {"int", "float"} THEN IntV(IF val.k = "int" THEN val.n ELSE val.f)
    ELSE Raise("TypeError", val)

\* float(val_str)
float(val) ==
    IF val.k = "str"
    THEN IF IsIntLiteral(val.s) THEN FloatV(IntLiteralValue(val.s))
         ELSE Raise("ValueError", val)
    ELSE IF val.k \in {"int", "float"} THEN FloatV(IF val.k = "int" THEN val.n ELSE val.f)
    ELSE Raise("TypeError", val)

\* orjson.loads(val_str) on the JSON documents the characters can spell:
\* a number, an empty array, an array of one number.
orjson_loads(val) ==
    IF val.k # "str" THEN Raise("JSONDecodeError", val)
    ELSE IF IsIntLiteral(val.s) THEN IntV(IntLiteralValue(val.s))
    ELSE IF Len(val.s) >= 2 /\ val.s[1] = "[" /\ val.s[Len(val.s)] = "]"
    THEN LET inner == SubSeq(val.s, 2, Len(val.s) - 1)
         IN IF inner = <<>> THEN ListV(<<>>)
            ELSE IF IsIntLiteral(inner) THEN ListV(<<IntV(IntLiteralValue(inner))>>)
            ELSE Raise("JSONDecodeError", val)
    ELSE Raise("JSONDecodeError", val)

\* ------------------------------------------------- Deserializers registry
\* Type descriptors used as return annotations and registry keys.  "Custom"
\* is a user type that has no built-in converter.
TypeDescriptors == {"int", "float", "str", "list", "dict", "None", "Custom"}
\* A converter is a Python function, named by what it computes.
Function(id) == [k |-> "function", id |-> id]

\* Deserializers.deserialization_functions as the class body builds it.
BuiltinFunctions ==
    [t \in {"int", "float", "str", "list", "dict", "None"} |->
        CASE t = "int" -> Function("int")
          [] t = "float" -> Function("float")
          [] t = "str" -> Function("identity")
          [] t \in {"list", "dict"} -> Function("orjson_loads")
          [] t = "None" -> Function("none")]

\* A user converter for the Custom type: lambda val_str: Custom(val_str).
CustomV(val) == [k |-> "Custom", of |-> val]

\* Calling a Python value with one argument.
CallValue(fn, val) ==
    IF fn.k # "function" THEN Raise("TypeError", fn)
    ELSE CASE fn.id = "int" -> int(val)
           [] fn.id = "float" -> float(val)
           [] fn.id = "identity" -> val
           [] fn.id = "orjson_loads" -> orjson_loads(val)
           [] fn.id = "none" -> NoneV
           [] fn.id = "custom" -> CustomV(val)

\* dict.get(key): None when the key is absent.
DictGet(d, key) == IF key \in DOMAIN d THEN d[key] ELSE NoneV
\* An update that keeps the entry a key already has (dict.setdefault).
DictSetDefault(d, key, value) ==
    [x \in DOMAIN d \cup {key} |-> IF x \in DOMAIN d THEN d[x] ELSE value]
\* dict.update({key: value})
DictUpdate(d, key, value) ==
    [x \in DOMAIN d \cup {key} |-> IF x = key THEN value ELSE d[x]]
\* {**d1, **d2}
DictMerge(d1, d2) ==
    [x \in DOMAIN d1 \cup DOMAIN d2 |-> IF x \in DOMAIN d2 THEN d2[x] ELSE d1[x]]
\* d without key
DictWithout(d, key) == [x \in DOMAIN d \ {key} |-> d[x]]
EmptyDict == [x \in {} |-> NoneV]

\* Deserializers.get(to_type)
get(functions, to_type) == DictGet(functions, to_type)

\* A deserialize that hands the text back unconverted.
deserialize_unconverted(functions, value, to_type) == value

\* Deserializers.deserialize(value, to_type)
deserialize(functions, value, to_type) ==
    LET deserializer == get(functions, to_type)
    IN CallValue(deserializer, value)

\* ------------------------------------------------------ envelope records
\* A text that spells a JSON object is kept as the object it spells.
JsonText(doc) == [k |-> "str", json |-> doc]
IsJsonText(val) == val.k = "str" /\ "json" \in DOMAIN val

\* What json.dumps can encode: numbers, strings, None, not arbitrary objects.
JsonEncodable(val) == val.k \in {"int", "float", "str", "NoneType"}
JsonEncode(val) ==
    CASE val.k = "int" -> [j |-> "number", n |-> val.n]
      [] val.k = "float" -> [j |-> "number", n |-> val.f]
      [] val.k = "str" -> [j |-> "string", s |-> val.s]
      [] val.k = "NoneType" -> [j |-> "null"]

\* ServiceRequest(serviceName, serviceArgs).dumps()
dumps(serviceName, serviceArgs) ==
    IF \E key \in DOMAIN serviceArgs : ~JsonEncodable(serviceArgs[key])
    THEN Raise("TypeError", StrV(<<>>))
    ELSE JsonText([serviceName |-> serviceName,
                   serviceArgs |-> [key \in DOMAIN serviceArgs |-> JsonEncode(serviceArgs[key])]])

\* orjson.loads(text) of a received text.
loads(text) == IF IsJsonText(text) THEN DictV(text.json) ELSE orjson_loads(text)

\* A constructor that drops the keywords it does not know.
ServiceResponseIgnoringExtra(obj) ==
    IF obj.k # "dict" THEN Raise("TypeError", obj)
    ELSE IF ~({"requestStatus", "serviceOutput"} \subseteq DOMAIN obj.pairs)
    THEN Raise("TypeError", obj)
    ELSE [k |-> "ServiceResponse",
          requestStatus |-> obj.pairs["requestStatus"],
          serviceOutput |-> obj.pairs["serviceOutput"]]

\* ServiceResponse(**obj): the dataclass constructor takes exactly the
\* keywords requestStatus and serviceOutput.
ResponseFields == {"requestStatus", "serviceOutput"}
ServiceResponse(obj) ==
    IF obj.k # "dict" THEN Raise("TypeError", obj)
    ELSE IF DOMAIN obj.pairs # ResponseFields THEN Raise("TypeError", obj)
    ELSE [k |-> "ServiceResponse",
          requestStatus |-> obj.pairs["requestStatus"],
          serviceOutput |-> obj.pairs["serviceOutput"]]

\* RequestStatus
SUCCESS == "SUCCESS"
ERROR == "ERROR"

\* ------------------------------------------- the request text, spelled out
\* json.dumps and a JSON decoder down to the characters.  A dict to encode
\* or decoded is kept with its items in insertion order, as Python keeps
\* it: a sequence of <<key text, value>>.
QUOTE == "\""
BACKSLASH == "\\"
BoolV(b) == [k |-> "bool", b |-> b]
OrderedDictV(items) == [k |-> "dict", items |-> items]

RECURSIVE NatText(_)
NatText(n) ==
    IF n < 10 THEN <<DigitChars[n + 1]>>
    ELSE NatText(n \div 10) \o <<DigitChars[(n % 10) + 1]>>
IntText(n) == IF n < 0 THEN <<"-">> \o NatText(0 - n) ELSE NatText(n)

\* A string spelled between quotes with nothing escaped.
UnescapedStringText(t) == <<QUOTE>> \o t \o <<QUOTE>>

RECURSIVE EscapedText(_)
EscapedText(t) ==
    IF t = <<>> THEN <<>>
    ELSE (IF Head(t) \in {QUOTE, BACKSLASH} THEN <<BACKSLASH, Head(t)>> ELSE <<Head(t)>>)
         \o EscapedText(Tail(t))
\* json.dumps of a str: quotes around it, quote and backslash escaped
StringText(t) == <<QUOTE>> \o EscapedText(t) \o <<QUOTE>>

RECURSIVE json_encodable(_)
json_encodable(val) ==
    CASE val.k \in {"NoneType", "bool", "int", "str"} -> TRUE
      [] val.k = "list" -> \A i \in DOMAIN val.items : json_encodable(val.items[i])
      [] val.k = "dict" /\ "items" \in DOMAIN val ->
            \A i \in DOMAIN val.items : json_encodable(val.items[i][2])
      [] OTHER -> FALSE

\* json.dumps(val) with its default separators ", " and ": "
RECURSIVE json_text(_)
RECURSIVE ElementsText(_)
RECURSIVE MembersText(_)
json_text(val) ==
    CASE val.k = "NoneType" -> <<"n", "u", "l", "l">>
      [] val.k = "bool" -> IF val.b THEN <<"t", "r", "u", "e">>
                           ELSE <<"f", "a", "l", "s", "e">>
      [] val.k = "int" -> IntText(val.n)
      [] val.k = "str" -> StringText(val.s)
      [] val.k = "list" -> <<"[">> \o ElementsText(val.items) \o <<"]">>
      [] val.k = "dict" -> <<"{">> \o MembersText(val.items) \o <<"}">>
ElementsText(items) ==
    IF items = <<>> THEN <<>>
    ELSE IF Len(items) = 1 THEN json_text(items[1])
    ELSE json_text(items[1]) \o <<",", " ">> \o ElementsText(Tail(items))
MembersText(items) ==
    IF items = <<>> THEN <<>>
    ELSE LET member == StringText(items[1][1]) \o <<":", " ">> \o json_text(items[1][2])
         IN IF Len(items) = 1 THEN member
            ELSE member \o <<",", " ">> \o MembersText(Tail(items))
json_dumps(val) ==
    IF json_encodable(val) THEN StrV(json_text(val)) ELSE Raise("TypeError", StrV(<<>>))

serviceNameKey == <<"s", "e", "r", "v", "i", "c", "e", "N", "a", "m", "e">>
serviceArgsKey == <<"s", "e", "r", "v", "i", "c", "e", "A", "r", "g", "s">>
\* ServiceRequest(serviceName, serviceArgs).dumps(), as the text itself
dumps_text(serviceName, serviceArgs) ==
    json_dumps(OrderedDictV(<< <<serviceNameKey, StrV(serviceName)>>,
                               <<serviceArgsKey, OrderedDictV(serviceArgs)>> >>))

\* A JSON decoder on the texts json_text spells: null, true, false,
\* integers, strings with the escapes \" and \\, arrays and objects, with
\* spaces allowed between tokens.  A parse gives the value and the place
\* after it.
Failure == [ok |-> FALSE, val |-> NoneV, at |-> 0]
Parsed(v, i) == [ok |-> TRUE, val |-> v, at |-> i]

RECURSIVE SkipSpace(_, _)
SkipSpace(t, i) == IF i <= Len(t) /\ t[i] = " " THEN SkipSpace(t, i + 1) ELSE i

Matches(t, i, word) ==
    /\ i + Len(word) - 1 <= Len(t)
    /\ SubSeq(t, i, i + Len(word) - 1) = word

\* the characters of a string up to its closing quote, escapes undone
RECURSIVE ScanString(_, _, _)
ScanString(t, i, acc) ==
    IF i > Len(t) THEN Failure
    ELSE IF t[i] = QUOTE THEN Parsed(StrV(acc), i + 1)
    ELSE IF t[i] = BACKSLASH
    THEN IF i + 1 <= Len(t) /\ t[i + 1] \in {QUOTE, BACKSLASH}
         THEN ScanString(t, i + 2, Append(acc, t[i + 1]))
         ELSE Failure
    ELSE ScanString(t, i + 1, Append(acc, t[i]))

RECURSIVE DigitsEnd(_, _)
DigitsEnd(t, i) == IF i <= Len(t) /\ t[i] \in Digits THEN DigitsEnd(t, i + 1) ELSE i
\* an integer: an optional "-", then digits with no leading zero
ParseNumber(t, i) ==
    LET start == IF t[i] = "-" THEN i + 1 ELSE i
        end == DigitsEnd(t, start)
        digits == SubSeq(t, start, end - 1)
    IN IF end = start THEN Failure
       ELSE IF Len(digits) > 1 /\ digits[1] = "0" THEN Failure
       ELSE Parsed(IntV(IF start = i THEN DecimalValue(digits)
                        ELSE 0 - DecimalValue(digits)), end)

\* dict[key] = val: a repeated key keeps its place and takes the new value
PutItem(items, key, val) ==
    IF \E i \in DOMAIN items : items[i][1] = key
    THEN [i \in DOMAIN items |-> IF items[i][1] = key THEN <<key, val>> ELSE items[i]]
    ELSE Append(items, <<key, val>>)

RECURSIVE ParseValue(_, _)
RECURSIVE ParseElements(_, _, _)
RECURSIVE ParseMembers(_, _, _)
ParseValue(t, from) ==
    LET i == SkipSpace(t, from)
    IN IF i > Len(t) THEN Failure
       ELSE IF t[i] = QUOTE THEN ScanString(t, i + 1, <<>>)
       ELSE IF t[i] = "[" THEN ParseElements(t, i + 1, <<>>)
       ELSE IF t[i] = "{" THEN ParseMembers(t, i + 1, <<>>)
       ELSE IF Matches(t, i, <<"n", "u", "l", "l">>) THEN Parsed(NoneV, i + 4)
       ELSE IF Matches(t, i, <<"t", "r", "u", "e">>) THEN Parsed(BoolV(TRUE), i + 4)
       ELSE IF Matches(t, i, <<"f", "a", "l", "s", "e">>) THEN Parsed(BoolV(FALSE), i + 5)
       ELSE IF t[i] = "-" \/ t[i] \in Digits THEN ParseNumber(t, i)
       ELSE Failure
\* the elements of an array, after its "[" or after a ","
ParseElements(t, from, acc) ==
    LET i == SkipSpace(t, from)
    IN IF i > Len(t) THEN Failure
       ELSE IF t[i] = "]"
       THEN IF acc = <<>> THEN Parsed(ListV(<<>>), i + 1) ELSE Failure
       ELSE LET v == ParseValue(t, i)
                j == SkipSpace(t, v.at)
            IN IF ~v.ok \/ j > Len(t) THEN Failure
               ELSE IF t[j] = "," THEN ParseElements(t, j + 1, Append(acc, v.val))
               ELSE IF t[j] = "]" THEN Parsed(ListV(Append(acc, v.val)), j + 1)
               ELSE Failure
\* the members of an object, after its "{" or after a ","
ParseMembers(t, from, acc) ==
    LET i == SkipSpace(t, from)
    IN IF i > Len(t) THEN Failure
       ELSE IF t[i] = "}"
       THEN IF acc = <<>> THEN Parsed(OrderedDictV(<<>>), i + 1) ELSE Failure
       ELSE IF t[i] # QUOTE THEN Failure
       ELSE LET key == ScanString(t, i + 1, <<>>)
                colon == SkipSpace(t, key.at)
                v == ParseValue(t, colon + 1)
                j == SkipSpace(t, v.at)
            IN IF ~key.ok \/ colon > Len(t) THEN Failure
               ELSE IF t[colon] # ":" THEN Failure
               ELSE IF ~v.ok \/ j > Len(t) THEN Failure
               ELSE IF t[j] = ","
               THEN ParseMembers(t, j + 1, PutItem(acc, key.val.s, v.val))
               ELSE IF t[j] = "}"
               THEN Parsed(OrderedDictV(PutItem(acc, key.val.s, v.val)), j + 1)
               ELSE Failure

\* the receiver's decoding of a whole text
json_loads(text) ==
    IF text.k # "str" THEN Raise("TypeError", text)
    ELSE LET r == ParseValue(text.s, 1)
         IN IF r.ok /\ SkipSpace(text.s, r.at) = Len(text.s) + 1 THEN r.val
            ELSE Raise("JSONDecodeError", text)

\* ------------------------------------------------------------ callables
\* A decorated callable: its __name__, __code__.co_varnames (parameters,
\* then locals), __code__.co_argcount, the number of trailing parameters
\* with a default, __annotations__ and whether it is a bound method.
Callable(name, varnames, argcount, ndefaults, annotations, bound) ==
    [name |-> name, co_varnames |-> varnames, co_argcount |-> argcount,
     ndefaults |-> ndefaults, annotations |-> annotations, bound |-> bound]
Returns(t) == [x \in {"return"} |-> t]
NoAnnotations == [x \in {} |-> "None"]

Callables ==
    { Callable("add", <<"a", "b">>, 2, 0, Returns("float"), FALSE),
      Callable("handler", <<"self", "a", "b">>, 3, 0, Returns("int"), FALSE),
      Callable("handler", <<"self", "a", "b">>, 3, 0, Returns("int"), TRUE),
      Callable("greet", <<"self", "a", "b", "msg">>, 3, 1, Returns("str"), FALSE),
      Callable("items", <<"self", "a">>, 2, 0, Returns("list"), FALSE),
      Callable("ping", <<"self", "a">>, 2, 0, Returns("None"), FALSE),
      Callable("notify", <<"self", "a">>, 2, 0, NoAnnotations, FALSE),
      Callable("fetch", <<"self", "a">>, 2, 0, Returns("Custom"), FALSE) }

Parameters(function) == SubSeq(function.co_varnames, 1, function.co_argcount)

\* Python's argument binding for function(*args, **kwargs).
Binds(function, args, kwargs) ==
    LET effective == IF function.bound THEN <<Inst>> \o args ELSE args
        params == Parameters(function)
        n == Len(effective)
    IN /\ n <= Len(params)
       /\ \A key \in DOMAIN kwargs : \E i \in (n + 1)..Len(params) : params[i] = key
       /\ \A i \in (n + 1)..(Len(params) - function.ndefaults) : params[i] \in DOMAIN kwargs

\* function(*args, **kwargs): body is what the body does once the
\* arguments are bound (the value it returns, or the exception it raises).
Invoke(function, args, kwargs, body) ==
    IF Binds(function, args, kwargs) THEN body ELSE Raise("TypeError", StrV(<<>>))

\* dict(zip(names, values))
Min(a, b) == IF a < b THEN a ELSE b
Zip(names, values) ==
    LET n == Min(Len(names), Len(values))
    IN [x \in {names[i] : i \in 1..n} |->
            values[CHOOSE i \in 1..n : names[i] = x]]

\* inspect.ismethod(function)
ismethod(function) == function.bound

\* ------------------------------------------------------ the two wrappers
\* make_request_decorator.decorator.wrapper: the service_args it builds.
decorator_service_args(function, args, kwargs) ==
    LET service_args == DictMerge(Zip(function.co_varnames, args), kwargs)
    IN IF ismethod(function)
       THEN IF "self" \in DOMAIN service_args
            THEN DictV(DictWithout(service_args, "self"))
            ELSE Raise("KeyError", StrV(<<>>))
       ELSE DictV(service_args)

\* co_varnames[1:] and args[1:]
Slice1(seq) == IF Len(seq) = 0 THEN <<>> ELSE Tail(seq)

\* service_request.wrapper: the service_args it builds.
method_service_args(method, args, kwargs) ==
    DictV(DictMerge(Zip(Slice1(method.co_varnames), Slice1(args)), kwargs))

\* service_request.wrapper: req_socket = args[0].socket
req_socket(args) ==
    IF Len(args) = 0 THEN Raise("IndexError", StrV(<<>>))
    ELSE IF args[1].k # "object" THEN Raise("AttributeError", args[1])
    ELSE [k |-> "socket", of |-> args[1]]

\* str(value)
PyStr(val) == IF val.k = "str" THEN val ELSE StrV(<<"N", "o", "n", "e">>)
\* A wrapper that sends what the original callable returned.
RequestTextOfLocal(builder, function, args, kwargs, local) == PyStr(local)

\* The text a wrapper hands to the transport's send, or the exception
\* raised before anything is sent.  local is the value the original
\* callable returned; both wrappers have dropped it.
RequestText(builder, function, args, kwargs, local) ==
    LET service_args == IF builder = "make_request_decorator"
                        THEN decorator_service_args(function, args, kwargs)
                        ELSE method_service_args(function, args, kwargs)
        socket == IF builder = "make_request_decorator"
                  THEN [k |-> "socket", of |-> NoneV]
                  ELSE req_socket(args)
    IN IF IsRaise(service_args) THEN service_args
       ELSE IF IsRaise(socket) THEN socket
       ELSE dumps(function.name, service_args.pairs)

\* response = ServiceResponse(**orjson.loads(recv_string()))
DecodeResponse(text) ==
    LET obj == loads(text)
    IN IF IsRaise(obj) THEN obj ELSE ServiceResponse(obj)

\* The status check of both wrappers.
StatusFailure(function, response) ==
    Raise("Exception", [service |-> function.name, output |-> response.serviceOutput])

\* A return statement that reads the annotation with .get('return').
ReturnValueGetReturn(functions, function, response, local) ==
    deserialize(functions, response.serviceOutput,
                IF "return" \in DOMAIN function.annotations
                THEN function.annotations["return"] ELSE "None")

\* The return statement of both wrappers:
\* Deserializers.deserialize(response.serviceOutput, function.__annotations__['return'])
ReturnValue(functions, function, response, local) ==
    IF "return" \notin DOMAIN function.annotations
    THEN Raise("KeyError", StrV(<<>>))
    ELSE deserialize(functions, response.serviceOutput, function.annotations["return"])

\* ----------------------------------------------------------- the inputs
Builders == {"make_request_decorator", "service_request"}
ArgValues == {Inst, IntV(1), IntV(2)}
RECURSIVE ArgLists(_)
ArgLists(n) ==
    IF n = 0 THEN {<<>>}
    ELSE LET shorter == ArgLists(n - 1)
         IN shorter \cup {Append(l, v) : l \in {u \in shorter : Len(u) = n - 1}, v \in ArgValues}
KeywordNames == {"self", "a", "b"}
KeywordArgs == UNION {[names -> ArgValues] : names \in SUBSET KeywordNames}
\* What the body of the original callable may do.
Bodies == {NoneV, StrV(<<"7">>), Raise("ValueError", StrV(<<>>))}

\* The texts the transport may deliver.
Statuses == {SUCCESS, ERROR, "PENDING"}
Outputs == {StrV(t) : t \in Texts} \cup {IntV(7)}
ReplyObjects ==
    {[requestStatus |-> st, serviceOutput |-> out] : st \in Statuses, out \in Outputs}
    \cup {[requestStatus |-> st, serviceOutput |-> out, requestId |-> IntV(1)] :
             st \in Statuses, out \in {StrV(<<"7">>), StrV(<<"-">>)}}
    \cup {[requestStatus |-> st] : st \in Statuses}
    \cup {[serviceOutput |-> out] : out \in Outputs}
Replies == {JsonText(obj) : obj \in ReplyObjects} \cup {StrV(t) : t \in Texts}

\* The converters a program registers after start-up.
Registrations == {<<"Custom", Function("custom")>>, <<"int", Function("identity")>>}

\* ------------------------------------------------------------- the state
VARIABLES
    deserialization_functions,  \* Deserializers.deserialization_functions
    pc,          \* where the call in progress stands
    builder,     \* which builder made the stub
    function,    \* the decorated callable
    args,        \* *args of the call
    kwargs,      \* **kwargs of the call
    local,       \* what the original callable returned
    sent,        \* the text handed to the transport's send
    reply,       \* the text the transport's receive returned
    response,    \* the decoded ServiceResponse
    result,      \* the value the stub returned
    error,       \* the exception the stub raised
    steps,       \* the steps the call has taken, in order
    registered,  \* the last converter add_deserializer was given, per type
    converter_at_call,  \* what get gave for the return type when the call began
    outstanding, \* requests sent on the transport whose reply is not yet received
    \* several callers on one transport handle
    serialized,  \* whether the callers hold a mutex of their own around each call
    lock,        \* the caller holding that mutex, or 0
    stage,       \* where each caller's stub call stands
    wire,        \* the requests sent on the handle the server has not read yet
    inbox,       \* the replies that reached the handle and were not yet received
    got,         \* the request whose reply each caller's receive returned
    \* one request envelope on its way to a receiver
    envelope

callstate == <<deserialization_functions, pc, builder, function, args, kwargs, local,
               sent, reply, response, result, error, steps,
               registered, converter_at_call, outstanding>>
sharedvars == <<serialized, lock, stage, wire, inbox, got>>
sidevars == <<serialized, lock, stage, wire, inbox, got, envelope>>
vars == <<deserialization_functions, pc, builder, function, args, kwargs, local,
          sent, reply, response, result, error, steps,
          registered, converter_at_call, outstanding,
          serialized, lock, stage, wire, inbox, got, envelope>>
callvars == <<builder, function, args, kwargs, local>>

Unset == [k |-> "unset"]

\* The threads that call stubs over one shared transport handle.
Callers == 1..NumCallers

Init ==
    /\ deserialization_functions = BuiltinFunctions
    /\ pc = "Idle"
    /\ builder = "make_request_decorator"
    /\ function = Unset
    /\ args = <<>>
    /\ kwargs = EmptyDict
    /\ local = Unset
    /\ sent = Unset
    /\ reply = Unset
    /\ response = Unset
    /\ result = Unset
    /\ error = Unset
    /\ steps = <<>>
    /\ registered = [t \in {} |-> NoneV]
    /\ converter_at_call = Unset
    /\ outstanding = 0
    /\ serialized = TRUE
    /\ lock = 0
    /\ stage = [c \in Callers |-> "Idle"]
    /\ wire = <<>>
    /\ inbox = <<>>
    /\ got = [c \in Callers |-> 0]
    /\ envelope = Unset

\* Deserializers.add_deserializer(to_type, function)
Register(to_type, fn) ==
    /\ deserialization_functions' = DictUpdate(deserialization_functions, to_type, fn)
    /\ registered' = [t \in DOMAIN registered \cup {to_type} |->
                        IF t = to_type THEN fn ELSE registered[t]]
    /\ UNCHANGED <<pc, builder, function, args, kwargs, local, sent, reply, response,
                   result, error, steps, converter_at_call, outstanding>>
    /\ UNCHANGED sidevars

\* the program registers one of its converters, at any moment
add_deserializer == \E r \in Registrations : Register(r[1], r[2])

\* wrapper, line 59: function(*args, **kwargs)
LocalInvokeOf(b, f, a, kw, body) ==
    /\ pc = "Idle"
    /\   LET out == Invoke(f, a, kw, body)
         IN /\ builder' = b
            /\ function' = f
            /\ args' = a
            /\ kwargs' = kw
            /\ steps' = <<"invoke">>
            /\ converter_at_call' =
                  IF "return" \in DOMAIN f.annotations
                  THEN get(deserialization_functions, f.annotations["return"])
                  ELSE Unset
            /\ IF IsRaise(out)
               THEN /\ pc' = "Failed"
                    /\ error' = out
                    /\ local' = Unset
               ELSE /\ pc' = "LocallyInvoked"
                    /\ error' = Unset
                    /\ local' = out
    /\ UNCHANGED <<deserialization_functions, sent, reply, response, result,
                   registered, outstanding>>
    /\ UNCHANGED sidevars

\* the program calls a stub
LocalInvoke ==
    /\ pc = "Idle"
    /\ \E b \in Builders, f \in Callables, a \in ArgLists(MaxArgs), kw \in KeywordArgs,
          body \in Bodies : LocalInvokeOf(b, f, a, kw, body)

\* A wrapper that sends its request twice.
SendTwice ==
    /\ pc = "LocallyInvoked"
    /\ LET text == RequestText(builder, function, args, kwargs, local)
       IN IF IsRaise(text)
          THEN /\ pc' = "Failed"
               /\ error' = text
               /\ UNCHANGED <<sent, steps, outstanding>>
          ELSE /\ pc' = "Sent"
               /\ sent' = text
               /\ steps' = Append(steps, "send")
               /\ outstanding' = outstanding + 2
               /\ UNCHANGED error
    /\ UNCHANGED <<deserialization_functions, callvars, reply, response, result,
                   registered, converter_at_call>>
    /\ UNCHANGED sidevars

\* A wrapper that has the transport send before it finds the request
\* cannot be encoded.
SendThenEncode ==
    /\ pc = "LocallyInvoked"
    /\ LET text == RequestText(builder, function, args, kwargs, local)
       IN IF IsRaise(text)
          THEN /\ pc' = "Failed"
               /\ error' = text
               /\ steps' = Append(steps, "send")
               /\ outstanding' = outstanding + 1
               /\ UNCHANGED sent
          ELSE /\ pc' = "Sent"
               /\ sent' = text
               /\ steps' = Append(steps, "send")
               /\ outstanding' = outstanding + 1
               /\ UNCHANGED error
    /\ UNCHANGED <<deserialization_functions, callvars, reply, response, result,
                   registered, converter_at_call>>
    /\ UNCHANGED sidevars

\* wrapper: build service_args, encode the request, send it
Send ==
    /\ pc = "LocallyInvoked"
    /\ LET text == RequestText(builder, function, args, kwargs, local)
       IN IF IsRaise(text)
          THEN /\ pc' = "Failed"
               /\ error' = text
               /\ UNCHANGED <<sent, steps, outstanding>>
          ELSE /\ pc' = "Sent"
               /\ sent' = text
               /\ steps' = Append(steps, "send")
               /\ outstanding' = outstanding + 1
               /\ UNCHANGED error
    /\ UNCHANGED <<deserialization_functions, callvars, reply, response, result,
                   registered, converter_at_call>>
    /\ UNCHANGED sidevars

\* wrapper: recv_string() is called and blocks
AwaitReply ==
    /\ pc = "Sent"
    /\ pc' = "AwaitingReply"
    /\ UNCHANGED <<deserialization_functions, callvars, sent, reply, response, result,
                   error, steps, registered, converter_at_call, outstanding>>
    /\ UNCHANGED sidevars

\* A wrapper that receives before it has sent.
ReceiveBeforeSend ==
    /\ pc = "LocallyInvoked"
    /\ \E text \in Replies : reply' = text
    /\ pc' = "Received"
    /\ steps' = Append(steps, "recv")
    /\ outstanding' = outstanding - 1
    /\ UNCHANGED <<deserialization_functions, callvars, sent, response, result, error,
                   registered, converter_at_call>>
    /\ UNCHANGED sidevars

\* A receive that gives up after a while.
ReceiveOrTimeout ==
    /\ pc = "AwaitingReply"
    /\ \/ /\ \E text \in Replies : reply' = text
          /\ pc' = "Received"
          /\ steps' = Append(steps, "recv")
          /\ outstanding' = outstanding - 1
          /\ UNCHANGED error
       \/ /\ pc' = "Failed"
          /\ error' = Raise("TimeoutError", StrV(<<>>))
          /\ UNCHANGED <<reply, steps, outstanding>>
    /\ UNCHANGED <<deserialization_functions, callvars, sent, response, result,
                   registered, converter_at_call>>
    /\ UNCHANGED sidevars

\* the transport delivers a text and recv_string() returns it
Receive ==
    /\ pc = "AwaitingReply"
    /\ \E text \in Replies : reply' = text
    /\ pc' = "Received"
    /\ steps' = Append(steps, "recv")
    /\ outstanding' = outstanding - 1
    /\ UNCHANGED <<deserialization_functions, callvars, sent, response, result, error,
                   registered, converter_at_call>>
    /\ UNCHANGED sidevars

\* A wrapper that sends its request again when the reply cannot be decoded.
DecodeRetrying ==
    /\ pc = "Received"
    /\ LET r == DecodeResponse(reply)
       IN IF IsRaise(r)
          THEN /\ pc' = "LocallyInvoked"
               /\ UNCHANGED <<response, error>>
          ELSE /\ pc' = "Decoded"
               /\ response' = r
               /\ UNCHANGED error
    /\ steps' = Append(steps, "decode")
    /\ UNCHANGED <<deserialization_functions, callvars, sent, reply, result,
                   registered, converter_at_call, outstanding>>
    /\ UNCHANGED sidevars

\* wrapper: response = ServiceResponse(**orjson.loads(...))
Decode ==
    /\ pc = "Received"
    /\ LET r == DecodeResponse(reply)
       IN IF IsRaise(r)
          THEN /\ pc' = "Failed"
               /\ error' = r
               /\ UNCHANGED response
          ELSE /\ pc' = "Decoded"
               /\ response' = r
               /\ UNCHANGED error
    /\ steps' = Append(steps, "decode")
    /\ UNCHANGED <<deserialization_functions, callvars, sent, reply, result,
                   registered, converter_at_call, outstanding>>
    /\ UNCHANGED sidevars

\* A status check that refuses only the ERROR status.
CheckStatusErrorOnly ==
    /\ pc = "Decoded"
    /\ IF response.requestStatus = ERROR
       THEN /\ pc' = "Failed"
            /\ error' = StatusFailure(function, response)
            /\ steps' = Append(steps, "raise")
       ELSE /\ pc' = "Deserializing"
            /\ UNCHANGED <<error, steps>>
    /\ UNCHANGED <<deserialization_functions, callvars, sent, reply, response, result,
                   registered, converter_at_call, outstanding>>
    /\ UNCHANGED sidevars

\* wrapper: if response.requestStatus != RequestStatus.SUCCESS: raise
CheckStatus ==
    /\ pc = "Decoded"
    /\ IF response.requestStatus # SUCCESS
       THEN /\ pc' = "Failed"
            /\ error' = StatusFailure(function, response)
            /\ steps' = Append(steps, "raise")
       ELSE /\ pc' = "Deserializing"
            /\ UNCHANGED <<error, steps>>
    /\ UNCHANGED <<deserialization_functions, callvars, sent, reply, response, result,
                   registered, converter_at_call, outstanding>>
    /\ UNCHANGED sidevars

\* A wrapper that converts with the converter it found when the call began.
DeserializeWithConverterAtCall ==
    /\ pc = "Deserializing"
    /\ LET v == IF "return" \notin DOMAIN function.annotations
                THEN Raise("KeyError", StrV(<<>>))
                ELSE CallValue(converter_at_call, response.serviceOutput)
       IN /\ IF IsRaise(v)
             THEN /\ pc' = "Failed"
                  /\ error' = v
                  /\ UNCHANGED result
             ELSE /\ pc' = "Succeeded"
                  /\ result' = v
                  /\ UNCHANGED error
          /\ steps' = IF "return" \in DOMAIN function.annotations
                      THEN steps \o <<"get", "call">>
                      ELSE steps
    /\ UNCHANGED <<deserialization_functions, callvars, sent, reply, response,
                   registered, converter_at_call, outstanding>>
    /\ UNCHANGED sidevars

\* A wrapper that registers the identity for a return type it finds no
\* converter for.
DeserializeRegisteringDefault ==
    /\ pc = "Deserializing"
    /\ LET known == /\ "return" \in DOMAIN function.annotations
                    => function.annotations["return"] \in DOMAIN deserialization_functions
           functions == IF known THEN deserialization_functions
                        ELSE DictSetDefault(deserialization_functions,
                                            function.annotations["return"],
                                            Function("identity"))
           v == ReturnValue(functions, function, response, local)
       IN /\ IF IsRaise(v)
             THEN /\ pc' = "Failed"
                  /\ error' = v
                  /\ UNCHANGED result
             ELSE /\ pc' = "Succeeded"
                  /\ result' = v
                  /\ UNCHANGED error
          /\ steps' = IF "return" \in DOMAIN function.annotations
                      THEN steps \o <<"get", "call">>
                      ELSE steps
          /\ deserialization_functions' = functions
    /\ UNCHANGED <<callvars, sent, reply, response,
                   registered, converter_at_call, outstanding>>
    /\ UNCHANGED sidevars

\* wrapper: return Deserializers.deserialize(...)
Deserialize ==
    /\ pc = "Deserializing"
    /\ LET v == ReturnValue(deserialization_functions, function, response, local)
       IN /\ IF IsRaise(v)
             THEN /\ pc' = "Failed"
                  /\ error' = v
                  /\ UNCHANGED result
             ELSE /\ pc' = "Succeeded"
                  /\ result' = v
                  /\ UNCHANGED error
          /\ steps' = IF "return" \in DOMAIN function.annotations
                      THEN steps \o <<"get", "call">>
                      ELSE steps
    /\ UNCHANGED <<deserialization_functions, callvars, sent, reply, response,
                   registered, converter_at_call, outstanding>>
    /\ UNCHANGED sidevars

\* the stub has returned or raised; the next call starts afresh
Return ==
    /\ pc \in {"Succeeded", "Failed"}
    /\ pc' = "Idle"
    /\ builder' = "make_request_decorator"
    /\ function' = Unset
    /\ args' = <<>>
    /\ kwargs' = EmptyDict
    /\ local' = Unset
    /\ sent' = Unset
    /\ reply' = Unset
    /\ response' = Unset
    /\ result' = Unset
    /\ error' = Unset
    /\ steps' = <<>>
    /\ converter_at_call' = Unset
    /\ UNCHANGED <<deserialization_functions, registered, outstanding>>
    /\ UNCHANGED sidevars

Next ==
    \/ add_deserializer
    \/ LocalInvoke
    \/ Send
    \/ AwaitReply
    \/ Receive
    \/ Decode
    \/ CheckStatus
    \/ Deserialize
    \/ Return

Spec == Init /\ [][Next]_vars

\* The wrapper is straight-line code: once recv_string() has returned, each
\* of its remaining statements runs.  Nothing obliges the transport to
\* deliver a reply or the program to call a stub, register a converter or
\* call again.
\* The calls of this specification pass an instance and a number, or two
\* numbers, and no keyword: every callable but the unbound handler binds
\* one of the two.
FairArgLists == {<<Inst, IntV(1)>>, <<IntV(1), IntV(2)>>}
FairLocalInvoke ==
    /\ pc = "Idle"
    /\ \E b \in Builders, f \in Callables, a \in FairArgLists, body \in Bodies :
          LocalInvokeOf(b, f, a, EmptyDict, body)

FairNext ==
    \/ add_deserializer
    \/ FairLocalInvoke
    \/ Send
    \/ AwaitReply
    \/ Receive
    \/ Decode
    \/ CheckStatus
    \/ Deserialize
    \/ Return

FairSpec ==
    /\ Init
    /\ [][FairNext]_vars
    /\ WF_vars(Decode)
    /\ WF_vars(CheckStatus)
    /\ WF_vars(Deserialize)

\* ------------------------------------- several callers, one transport handle
\* Each caller runs the wrapper: it sends its request on the shared handle
\* and then receives whatever reply the handle holds next.  The envelope
\* carries no identifier, so the model tags a request with its caller only
\* to tell afterwards whose reply was received.  The callers either all
\* hold a mutex of their own around each stub call or none does.

\* a caller enters the stub (taking the callers' mutex when they use one)
CallerEnter(c) ==
    /\ stage[c] = "Idle"
    /\ serialized => lock = 0
    /\ lock' = IF serialized THEN c ELSE lock
    /\ stage' = [stage EXCEPT ![c] = "LocallyInvoked"]
    /\ UNCHANGED <<serialized, wire, inbox, got, envelope, callstate>>

\* A wrapper that sends its request a second time.
CallerSendTwice(c) ==
    /\ stage[c] = "LocallyInvoked"
    /\ wire' = wire \o <<c, c>>
    /\ stage' = [stage EXCEPT ![c] = "AwaitingReply"]
    /\ UNCHANGED <<serialized, lock, inbox, got, envelope, callstate>>

\* wrapper: send_string_func(...) / req_socket.send_string(...)
CallerSend(c) ==
    /\ stage[c] = "LocallyInvoked"
    /\ wire' = Append(wire, c)
    /\ stage' = [stage EXCEPT ![c] = "AwaitingReply"]
    /\ UNCHANGED <<serialized, lock, inbox, got, envelope, callstate>>

\* the service reads the oldest request and its reply reaches the handle
ServiceReplies ==
    /\ Len(wire) > 0
    /\ inbox' = Append(inbox, Head(wire))
    /\ wire' = Tail(wire)
    /\ UNCHANGED <<serialized, lock, stage, got, envelope, callstate>>

\* wrapper: recv_string_func() / req_socket.recv_string() returns the
\* oldest reply at the handle
CallerReceive(c) ==
    /\ stage[c] = "AwaitingReply"
    /\ Len(inbox) > 0
    /\ got' = [got EXCEPT ![c] = Head(inbox)]
    /\ inbox' = Tail(inbox)
    /\ stage' = [stage EXCEPT ![c] = "Received"]
    /\ UNCHANGED <<serialized, lock, wire, envelope, callstate>>

\* the stub returns or raises (and the caller releases the mutex)
CallerReturn(c) ==
    /\ stage[c] = "Received"
    /\ stage' = [stage EXCEPT ![c] = "Idle"]
    /\ got' = [got EXCEPT ![c] = 0]
    /\ lock' = IF serialized THEN 0 ELSE lock
    /\ UNCHANGED <<serialized, wire, inbox, envelope, callstate>>

SharedInit ==
    /\ deserialization_functions = BuiltinFunctions
    /\ pc = "Idle"
    /\ builder = "make_request_decorator"
    /\ function = Unset
    /\ args = <<>>
    /\ kwargs = EmptyDict
    /\ local = Unset
    /\ sent = Unset
    /\ reply = Unset
    /\ response = Unset
    /\ result = Unset
    /\ error = Unset
    /\ steps = <<>>
    /\ registered = [t \in {} |-> NoneV]
    /\ converter_at_call = Unset
    /\ outstanding = 0
    /\ serialized \in BOOLEAN
    /\ lock = 0
    /\ stage = [c \in Callers |-> "Idle"]
    /\ wire = <<>>
    /\ inbox = <<>>
    /\ got = [c \in Callers |-> 0]
    /\ envelope = Unset

SharedNext ==
    \/ \E c \in Callers : CallerEnter(c)
    \/ \E c \in Callers : CallerSend(c)
    \/ ServiceReplies
    \/ \E c \in Callers : CallerReceive(c)
    \/ \E c \in Callers : CallerReturn(c)

SpecShared == SharedInit /\ [][SharedNext]_vars

\* ------------------------------------------ a request on its way to a service
\* The values a caller may pass: None, booleans, integers, strings with
\* quotes, backslashes and commas in them, lists and dicts of these, and an
\* instance that json.dumps cannot encode.
CodecChars == {"a", QUOTE, BACKSLASH, ","}
RECURSIVE CodecTextsUpTo(_)
CodecTextsUpTo(n) ==
    IF n = 0 THEN {<<>>}
    ELSE LET shorter == CodecTextsUpTo(n - 1)
         IN shorter \cup {Append(t, c) : t \in {u \in shorter : Len(u) = n - 1},
                                        c \in CodecChars}
CodecInts == {0, 7, 0 - 7, 10, 0 - 105, 2026}
Atoms ==
    {NoneV, BoolV(TRUE), BoolV(FALSE)}
    \cup {IntV(n) : n \in CodecInts}
    \cup {StrV(t) : t \in CodecTextsUpTo(MaxTextLen)}
NestedKeys == {<<"a">>, <<"b", QUOTE>>}
WireValues ==
    Atoms
    \cup {ListV(<<>>), OrderedDictV(<<>>)}
    \cup {ListV(<<x>>) : x \in Atoms}
    \cup {ListV(<<IntV(1), x>>) : x \in Atoms}
    \cup {ListV(<<ListV(<<x>>), NoneV>>) : x \in Atoms}
    \cup {OrderedDictV(<< <<key, x>> >>) : key \in NestedKeys, x \in Atoms}
    \cup {OrderedDictV(<< <<<<"a">>, ListV(<<x>>)>>, <<<<"b">>, OrderedDictV(<<>>)>> >>) :
             x \in Atoms}
SecondValues == {NoneV, IntV(0 - 7), StrV(<<QUOTE>>), ListV(<<>>)}
ArgumentMappings ==
    {<<>>}
    \cup {<< <<<<"a">>, v>> >> : v \in WireValues \cup {Inst}}
    \cup {<< <<<<"a">>, v>>, <<<<"b">>, w>> >> : v \in WireValues, w \in SecondValues}
ServiceNames == {<<"f">>, <<"g", "7">>}

\* ServiceRequest(name, service_args).dumps(): the text, or no text when
\* json.dumps raises
EncodeRequest ==
    /\ envelope = Unset
    /\ \E name \in ServiceNames, service_args \in ArgumentMappings :
         LET text == dumps_text(name, service_args)
         IN envelope' = [k |-> IF IsRaise(text) THEN "refused" ELSE "encoded",
                         serviceName |-> name,
                         serviceArgs |-> service_args,
                         text |-> text]
    /\ UNCHANGED <<callstate, sharedvars>>

\* the service decodes the text it received
DecodeRequest ==
    /\ envelope.k = "encoded"
    /\ envelope' = [k |-> "decoded",
                    serviceName |-> envelope.serviceName,
                    serviceArgs |-> envelope.serviceArgs,
                    text |-> envelope.text,
                    object |-> json_loads(envelope.text)]
    /\ UNCHANGED <<callstate, sharedvars>>

\* the request is dropped once it was decoded or could not be encoded
DiscardRequest ==
    /\ envelope.k \in {"decoded", "refused"}
    /\ envelope' = Unset
    /\ UNCHANGED <<callstate, sharedvars>>

CodecNext ==
    \/ EncodeRequest
    \/ DecodeRequest
    \/ DiscardRequest

SpecCodec == Init /\ [][CodecNext]_vars

\* The registry on its own: any converter is registered for any type, in
\* any order, while no call is made.
Converters == {Function("custom"), Function("identity"), Function("int")}
RegisterAny == \E t \in TypeDescriptors, fn \in Converters : Register(t, fn)
SpecRegistry == Init /\ [][RegisterAny]_vars

\* ------------------------------------------------------------ properties
Finished == pc \in {"Succeeded", "Failed"}
NormalOrder == <<"invoke", "send", "recv", "decode", "get", "call">>
RefusedOrder == <<"invoke", "send", "recv", "decode", "raise">>
IsPrefix(s, t) == Len(s) <= Len(t) /\ s = SubSeq(t, 1, Len(s))
ReturnType == function.annotations["return"]
HasReturnType == function # Unset /\ "return" \in DOMAIN function.annotations

\* C1: the steps a call has taken are always an initial part of
\* invoke, send, receive, decode, then look up and convert (or raise), and
\* each stage of the call has taken exactly the steps before it.
C1_StepsInOrder ==
    /\ IsPrefix(steps, NormalOrder) \/ IsPrefix(steps, RefusedOrder)
    /\ pc = "Idle" => steps = <<>>
    /\ pc = "LocallyInvoked" => steps = <<"invoke">>
    /\ pc \in {"Sent", "AwaitingReply"} => steps = <<"invoke", "send">> /\ sent # Unset
    /\ pc = "Received" => steps = <<"invoke", "send", "recv">> /\ reply # Unset
    /\ pc \in {"Decoded", "Deserializing"} =>
          steps = <<"invoke", "send", "recv", "decode">> /\ response # Unset
    /\ pc = "Succeeded" => steps = NormalOrder
    /\ pc = "Failed" => Len(steps) >= 1
C1_Witness ==
    /\ pc = "Succeeded"
    /\ builder = "service_request"
    /\ steps = NormalOrder

\* C2: once the status check has run on a reply whose status is not
\* SUCCESS, the call has failed with an error naming the service and
\* carrying the reply's output, and no converter was looked up or called.
C2_RefusedReply ==
    (response # Unset /\ pc # "Decoded" /\ response.requestStatus # SUCCESS) =>
        /\ pc = "Failed"
        /\ error = Raise("Exception",
                         [service |-> function.name, output |-> reply.json.serviceOutput])
        /\ "get" \notin {steps[i] : i \in 1..Len(steps)}
        /\ "call" \notin {steps[i] : i \in 1..Len(steps)}
C2_Witness ==
    /\ pc = "Failed"
    /\ response # Unset
    /\ response.requestStatus = "PENDING"
    /\ response.serviceOutput = StrV(<<"-", "7">>)

\* C3: the step that returns from a SUCCESS reply returns the converter
\* registered at that moment for the declared return type, applied to the
\* reply's output; output "7" declared int with the built-in converter
\* gives the integer 7.
C3_ReturnsConverted ==
    [][(pc = "Deserializing" /\ pc' = "Succeeded") =>
          /\ ReturnType \in DOMAIN deserialization_functions
          /\ result' = CallValue(deserialization_functions[ReturnType],
                                 reply.json.serviceOutput)
          /\ (/\ ReturnType = "int"
              /\ deserialization_functions["int"] = Function("int")
              /\ reply.json.serviceOutput = StrV(<<"7">>)) => result' = IntV(7)]_vars
C3_Witness ==
    /\ pc = "Succeeded"
    /\ ReturnType = "int"
    /\ reply.json.serviceOutput = StrV(<<"7">>)
    /\ result = IntV(7)

\* The call in progress is a call of handler(self, a, b) with the instance
\* as receiver, a and b bound to integers, and the body has returned.
Effective == IF function.bound THEN <<Inst>> \o args ELSE args
ParamValue(name) ==
    LET i == CHOOSE j \in 1..function.co_argcount : function.co_varnames[j] = name
    IN IF i <= Len(Effective) THEN Effective[i] ELSE kwargs[name]
MethodCallWithInstance ==
    /\ function # Unset
    /\ function.name = "handler"
    /\ ~function.bound \/ builder = "make_request_decorator"
    /\ local # Unset
    /\ Len(Effective) >= 1
    /\ Effective[1] = Inst
    /\ ParamValue("a").k = "int"
    /\ ParamValue("b").k = "int"

\* C4: once a call of a method stub with the instance and integers a, b
\* has passed its send step, it has sent a request whose serviceArgs is
\* {a: value of a, b: value of b}, with no receiver key.
C4_ReceiverExcluded ==
    (MethodCallWithInstance /\ pc \notin {"Idle", "LocallyInvoked"}) =>
        /\ sent # Unset
        /\ sent.json.serviceArgs =
              [x \in {"a", "b"} |-> JsonEncode(ParamValue(x))]

\* C5: the keys of serviceArgs in a sent request are exactly the declared
\* parameter names without the receiver parameter.
C5_KeysAreParameters ==
    sent # Unset =>
        DOMAIN sent.json.serviceArgs =
            {function.co_varnames[i] : i \in 1..function.co_argcount} \ {"self"}

\* C6: a call that failed in deserialize because no converter is
\* registered for the declared return type failed with a LookupError or
\* KeyError.
C6_MissingConverterLookupError ==
    (/\ pc = "Failed"
     /\ HasReturnType
     /\ steps = NormalOrder
     /\ ReturnType \notin DOMAIN deserialization_functions) =>
        error.exc \in {"LookupError", "KeyError"}

SuccessReplyDecoded == response # Unset /\ response.requestStatus = SUCCESS

\* C7 as first stated: a finished call of a callable without a return
\* annotation, on a SUCCESS reply, has returned None.
C7_UnannotatedReturnsNone ==
    (function # Unset /\ ~HasReturnType /\ SuccessReplyDecoded /\ Finished) =>
        pc = "Succeeded" /\ result = NoneV

\* C7: a finished call of a callable annotated -> None, on a SUCCESS
\* reply, has returned None whatever the output; a callable without a
\* return annotation has failed with KeyError before any lookup; and
\* deserialize(anything, None) is None.
C7_NoneAnnotationReturnsNone ==
    /\ (HasReturnType /\ ReturnType = "None" /\ SuccessReplyDecoded /\ Finished) =>
          pc = "Succeeded" /\ result = NoneV
    /\ (function # Unset /\ ~HasReturnType /\ SuccessReplyDecoded /\ Finished) =>
          /\ pc = "Failed"
          /\ error.exc = "KeyError"
          /\ steps = <<"invoke", "send", "recv", "decode">>
    /\ \A out \in Outputs : deserialize(deserialization_functions, out, "None") = NoneV
C7_Witness ==
    /\ pc = "Succeeded"
    /\ ReturnType = "None"
    /\ response.serviceOutput = StrV(<<"[", "7">>)
    /\ result = NoneV

DecodeStepTaken == reply # Unset /\ pc # "Received"
ResponseMatchesReply ==
    /\ response # Unset
    /\ response.requestStatus = reply.json.requestStatus
    /\ response.serviceOutput = reply.json.serviceOutput

\* C8 as first stated: a reply with both fields is decoded to its status
\* and output, extra fields or not.
C8_ExtraFieldsIgnored ==
    (DecodeStepTaken /\ IsJsonText(reply) /\ ResponseFields \subseteq DOMAIN reply.json) =>
        ResponseMatchesReply

\* C8: a reply is decoded to its status and output exactly when it is a
\* JSON object with the two fields and no other; any other reply (not
\* JSON, not an object, a field missing, a field too many) has made the
\* call fail in the decode step with no response and no status check.
C8_DecodeExactFields ==
    DecodeStepTaken =>
        IF IsJsonText(reply) /\ DOMAIN reply.json = ResponseFields
        THEN ResponseMatchesReply
        ELSE /\ pc = "Failed"
             /\ response = Unset
             /\ error.exc \in {"JSONDecodeError", "TypeError"}
             /\ steps = <<"invoke", "send", "recv", "decode">>
C8_Witness ==
    /\ pc = "Failed"
    /\ IsJsonText(reply)
    /\ DOMAIN reply.json = ResponseFields \cup {"requestId"}
    /\ reply.json.requestStatus = SUCCESS
    /\ error.exc = "TypeError"

\* What the original callable can return.
LocalValues == {b \in Bodies : ~IsRaise(b)}

C10_SendsLocalReturnsReply ==
    builder = "make_request_decorator" =>
        /\ sent # Unset => sent = PyStr(local)
        /\ pc = "Succeeded" => result = reply

\* C11: for every type, get gives the converter of the latest
\* add_deserializer for that type, or the built-in one when the type was
\* never registered, or nothing when it has neither; and every type that
\* is built in or was once registered has a converter.
C11_LastRegistrationWins ==
    /\ \A t \in TypeDescriptors :
          get(deserialization_functions, t) =
              IF t \in DOMAIN registered THEN registered[t]
              ELSE IF t \in DOMAIN BuiltinFunctions THEN BuiltinFunctions[t]
              ELSE NoneV
    /\ \A t \in DOMAIN BuiltinFunctions \cup DOMAIN registered :
          /\ t \in DOMAIN deserialization_functions
          /\ deserialization_functions[t].k = "function"
C11_Witness ==
    /\ "int" \in DOMAIN registered
    /\ get(deserialization_functions, "int") = Function("identity")
    /\ get(deserialization_functions, "Custom") = Function("custom")
    /\ "str" \notin DOMAIN registered
    /\ get(deserialization_functions, "str") = Function("identity")
    /\ get(deserialization_functions, "float") = Function("int")

\* What the call ended with: the value returned or the exception raised.
Outcome == IF pc = "Succeeded" THEN result ELSE error

\* C12: when the converter of the return type has changed since the call
\* began, the return step converts with the one registered now; and a
\* registration made after a call has finished changes nothing of it.
C12_InFlightRegistrationUsed ==
    [][/\ (/\ pc = "Deserializing"
           /\ Finished'
           /\ HasReturnType
           /\ converter_at_call # get(deserialization_functions, ReturnType)) =>
              Outcome' = CallValue(get(deserialization_functions, ReturnType),
                                   response.serviceOutput)
       /\ (Finished /\ deserialization_functions' # deserialization_functions) =>
              /\ pc' = pc
              /\ result' = result
              /\ error' = error]_vars
C12_Witness ==
    /\ pc = "Succeeded"
    /\ ReturnType = "Custom"
    /\ converter_at_call = NoneV
    /\ result = CustomV(StrV(<<"7">>))

\* Requests sent on the shared handle whose reply no caller has received.
OutstandingOnHandle == Len(wire) + Len(inbox)
OwnReplies == \A c \in Callers : got[c] # 0 => got[c] = c

\* C13 as first stated: whatever the callers do, at most one request is
\* outstanding on the shared handle and every caller has received the
\* reply to its own request.
C13_OneOutstanding ==
    OutstandingOnHandle <= 1 /\ OwnReplies

\* C13: when the callers serialize their stub calls with a mutex of their
\* own, at most one request is outstanding on the shared handle and every
\* caller has received the reply to its own request.
C13_OneOutstandingWhenSerialized ==
    serialized => OutstandingOnHandle <= 1 /\ OwnReplies
C13_Witness ==
    /\ serialized
    /\ \E c \in Callers : stage[c] = "Received" /\ got[c] = c /\ lock = c
    /\ OutstandingOnHandle = 0

Count(seq, x) == Cardinality({i \in DOMAIN seq : seq[i] = x})
\* the step leaves the call failed with exactly this error and no value
FailsWith(exc) == pc' = "Failed" /\ error' = exc /\ result' = Unset

\* C14: a call that has failed holds an error and no value, and has sent at
\* most once and received at most once; every step whose operation fails
\* (local invocation, encoding, decoding, status check, lookup of the return
\* annotation or the converter, conversion) ends the call in Failed with
\* that very error; and a failed call never resumes: it only returns to
\* its caller.
C14_NoInternalRecovery ==
    /\ [](/\ pc = "Failed" => IsRaise(error) /\ result = Unset
          /\ pc = "Succeeded" => error = Unset /\ ~IsRaise(result)
          /\ Count(steps, "send") <= 1
          /\ Count(steps, "recv") <= 1)
    /\ [][/\ (pc = "Idle" /\ pc' \notin {"Idle", "LocallyInvoked"}) =>
               /\ \E body \in Bodies :
                     /\ IsRaise(Invoke(function', args', kwargs', body))
                     /\ FailsWith(Invoke(function', args', kwargs', body))
               /\ sent' = Unset
          /\ (/\ pc = "LocallyInvoked" /\ pc' # pc
              /\ IsRaise(RequestText(builder, function, args, kwargs, local))) =>
               /\ FailsWith(RequestText(builder, function, args, kwargs, local))
               /\ sent' = Unset
          /\ (pc = "Received" /\ pc' # pc /\ IsRaise(DecodeResponse(reply))) =>
               FailsWith(DecodeResponse(reply))
          /\ (pc = "Decoded" /\ pc' # pc /\ response.requestStatus # SUCCESS) =>
               FailsWith(StatusFailure(function, response))
          /\ (/\ pc = "Deserializing" /\ pc' # pc
              /\ IsRaise(ReturnValue(deserialization_functions, function, response, local))) =>
               FailsWith(ReturnValue(deserialization_functions, function, response, local))
          /\ pc = "Failed" =>
               /\ pc' \in {"Failed", "Idle"}
               /\ pc' = "Failed" => error' = error /\ result' = result /\ steps' = steps
         ]_vars
\* a call whose reply could not be decoded has failed after one send and
\* one receive
C14_Witness ==
    /\ pc = "Failed"
    /\ steps = <<"invoke", "send", "recv", "decode">>
    /\ IsRaise(DecodeResponse(reply))
    /\ error = DecodeResponse(reply)
    /\ result = Unset

\* C15: a call that has sent its request goes on to wait for the reply; a
\* waiting call changes nothing and leaves AwaitingReply only by receiving
\* a text from the transport, never by a timeout or a failure; and once a
\* reply has been received the call eventually reaches Succeeded or
\* Failed.
C15_WaitsThenFinishes ==
    /\ [][/\ pc = "Sent" => pc' \in {"Sent", "AwaitingReply"}
          /\ pc = "AwaitingReply" =>
                \/ /\ pc' = "AwaitingReply"
                   /\ UNCHANGED <<callvars, sent, reply, response, result, error, steps>>
                \/ /\ pc' = "Received"
                   /\ reply' \in Replies
                   /\ error' = Unset
         ]_vars
    /\ (pc = "Received" ~> Finished)
\* a call is waiting for its reply while the program registers a converter
C15_Witness ==
    /\ pc = "AwaitingReply"
    /\ "Custom" \in DOMAIN deserialization_functions
    /\ reply = Unset
    /\ error = Unset

\* What a call that got past its local invocation ends with, computed from
\* the call's own inputs alone.
CallOutcome(functions, b, f, a, kw, loc, text) ==
    LET request == RequestText(b, f, a, kw, loc)
    IN IF IsRaise(request) THEN request
       ELSE LET r == DecodeResponse(text)
            IN IF IsRaise(r) THEN r
               ELSE IF r.requestStatus # SUCCESS THEN StatusFailure(f, r)
               ELSE ReturnValue(functions, f, r, loc)

\* C16: no step of a call changes the deserializer registry (only
\* add_deserializer does); the step that ends a call ends it with the
\* outcome computed from the call's callable, arguments and reply and the
\* registry alone; and between calls nothing of the last call is left.
C16_CallRetainsNoState ==
    /\ [](pc = "Idle" =>
            /\ function = Unset /\ args = <<>> /\ kwargs = EmptyDict /\ local = Unset
            /\ sent = Unset /\ reply = Unset /\ response = Unset
            /\ result = Unset /\ error = Unset /\ steps = <<>>)
    /\ [][/\ pc' # pc =>
               /\ deserialization_functions' = deserialization_functions
               /\ registered' = registered
          /\ deserialization_functions' # deserialization_functions =>
               \E r \in Registrations :
                  deserialization_functions' =
                     DictUpdate(deserialization_functions, r[1], r[2])
          /\ (pc \notin {"Idle", "Succeeded", "Failed"} /\ Finished') =>
               Outcome' = CallOutcome(deserialization_functions, builder, function,
                                      args, kwargs, local, reply)
         ]_vars
\* a call has returned the reply's text through a registered converter,
\* and the registry holds what the program registered
C16_Witness ==
    /\ pc = "Succeeded"
    /\ ReturnType = "int"
    /\ DOMAIN registered = {"int"}
    /\ result = StrV(<<"7">>)
    /\ deserialization_functions = DictUpdate(BuiltinFunctions, "int", Function("identity"))

\* the items of a decoded object as a set of <<key, value>>
ItemSet(items) == {items[i] : i \in DOMAIN items}
Keys(items) == {items[i][1] : i \in DOMAIN items}

\* C17: a request of wire values that was encoded and then decoded has
\* given an object with exactly the fields serviceName and serviceArgs,
\* the name it was built with, and an argument mapping with the same keys
\* and an equal value under each; a request holding an instance is
\* refused by the encoder.
C17_RequestRoundTrip ==
    /\ envelope.k = "decoded" =>
          /\ envelope.object.k = "dict"
          /\ Len(envelope.object.items) = 2
          /\ Keys(envelope.object.items) = {serviceNameKey, serviceArgsKey}
          /\ \A item \in ItemSet(envelope.object.items) :
                /\ item[1] = serviceNameKey => item[2] = StrV(envelope.serviceName)
                /\ item[1] = serviceArgsKey =>
                      /\ item[2].k = "dict"
                      /\ Len(item[2].items) = Len(envelope.serviceArgs)
                      /\ ItemSet(item[2].items) = ItemSet(envelope.serviceArgs)
    /\ envelope.k = "refused" =>
          \E i \in DOMAIN envelope.serviceArgs : envelope.serviceArgs[i][2] = Inst
    /\ envelope.k = "encoded" =>
          \A i \in DOMAIN envelope.serviceArgs : envelope.serviceArgs[i][2] # Inst
\* a request whose arguments hold a quote, a backslash and a nested list
\* was decoded
C17_Witness ==
    /\ envelope.k = "decoded"
    /\ envelope.serviceName = <<"g", "7">>
    /\ envelope.serviceArgs =
          << <<<<"a">>, ListV(<<ListV(<<StrV(<<BACKSLASH, QUOTE>>)>>), NoneV>>)>>,
             <<<<"b">>, IntV(0 - 7)>> >>
    /\ ~IsRaise(envelope.object)

\* C18: on the handle of one caller, at most one request is ever
\* outstanding, and one is outstanding exactly while a call has sent and
\* not yet received; a send happens only with none outstanding and a
\* receive only with one, so sends and receives alternate from call to
\* call; and a call that has ended, however it failed, has received as
\* many replies as it sent requests.
C18_SendReceiveAlternate ==
    /\ [](/\ outstanding \in {0, 1}
          /\ outstanding = 1 <=> pc \in {"Sent", "AwaitingReply"}
          /\ Finished => Count(steps, "send") = Count(steps, "recv"))
    /\ [][/\ Count(steps', "send") > Count(steps, "send") =>
               /\ outstanding = 0
               /\ outstanding' = 1
               /\ steps' = Append(steps, "send")
          /\ Count(steps', "recv") > Count(steps, "recv") =>
               /\ outstanding = 1
               /\ outstanding' = 0
               /\ steps' = Append(steps, "recv")
          /\ outstanding' # outstanding => Len(steps') = Len(steps) + 1
         ]_vars
\* a call refused by the service has read its reply and left nothing
\* outstanding
C18_Witness ==
    /\ pc = "Failed"
    /\ steps = RefusedOrder
    /\ response.requestStatus = ERROR
    /\ outstanding = 0

\* the call has failed in its local invocation or while building or
\* encoding its request
FailedBeforeSend == pc = "Failed" /\ response = Unset /\ reply = Unset

\* C19: a step that fails the call in its local invocation or in building
\* and encoding the request calls neither send nor receive and leaves the
\* count of outstanding requests as it was; a call that failed so has no
\* send and no receive among its steps, has sent nothing and has nothing
\* outstanding.
C19_FailureBeforeSendLeavesTransport ==
    /\ [](FailedBeforeSend =>
            /\ steps = <<"invoke">>
            /\ sent = Unset
            /\ outstanding = 0)
    /\ [][(pc \in {"Idle", "LocallyInvoked"} /\ pc' = "Failed") =>
               /\ outstanding' = outstanding
               /\ sent' = Unset /\ reply' = Unset
               /\ Count(steps', "send") = 0
               /\ Count(steps', "recv") = 0
               /\ IsRaise(error')
         ]_vars
\* the callable returned, and the request could not be encoded
C19_Witness ==
    /\ FailedBeforeSend
    /\ local # Unset
    /\ error = Raise("TypeError", StrV(<<>>))
    /\ IsRaise(RequestText(builder, function, args, kwargs, local))

OtherBuilder ==
    IF builder = "make_request_decorator" THEN "service_request" ELSE "make_request_decorator"
\* a stub over a method defined in a class, called with its instance first
MethodStubCall ==
    /\ function # Unset
    /\ ~function.bound
    /\ function.co_varnames[1] = "self"
    /\ Len(args) >= 1
    /\ args[1] = Inst
    /\ local # Unset

\* C20: once a call of a method stub with its instance has passed its send
\* step, what it has sent, or the error it failed with before sending, is
\* what the stub of the other builder sends or fails with for the same
\* method, instance and arguments.
C20_BuildersEquivalent ==
    (MethodStubCall /\ pc \notin {"Idle", "LocallyInvoked"}) =>
        LET text == RequestText(OtherBuilder, function, args, kwargs, local)
        IN IF IsRaise(text)
           THEN pc = "Failed" /\ sent = Unset /\ error = text
           ELSE sent = text
====
